---- MODULE Spec2Model ----
(***************************************************************************)
(* Model of examples/viper-duel/server/src/utils/validators.js: the four   *)
(* format predicates and the two payload validators of the viper-duel      *)
(* server, over a model of the JavaScript values they receive.             *)
(***************************************************************************)
EXTENDS Integers, Sequences, FiniteSets, TLC

VARIABLES input, call, log, watched

vars == <<input, call, log, watched>>

(***************************************************************************)
(* JavaScript values.  A string is the sequence of its code units, a       *)
(* number is sign * (h hundredths + ulp units in the last place), so that  *)
(* 0.1 and its floating-point neighbours are different numbers.            *)
(***************************************************************************)
Undefined == [kind |-> "undefined"]

Null == [kind |-> "null"]

Bool(b) == [kind |-> "boolean", b |-> b]

Num(sign, h, ulp) == [kind |-> "number", cls |-> "finite", sign |-> sign, h |-> h, ulp |-> ulp]

NaN == [kind |-> "number", cls |-> "nan", sign |-> 1, h |-> 0, ulp |-> 0]

Infinity == [kind |-> "number", cls |-> "inf", sign |-> 1, h |-> 0, ulp |-> 0]

Str(chars) == [kind |-> "string", chars |-> chars]

BigInt(n) == [kind |-> "bigint", n |-> n]

Symbol == [kind |-> "symbol"]

\* Objects, arrays and functions carry named own properties.
NoProps == [n \in {} |-> Undefined]

Function(props) == [kind |-> "function", props |-> props]

Obj(props) == [kind |-> "object", props |-> props]

Arr(elems) == [kind |-> "array", elems |-> elems, props |-> NoProps]

\* the typeof operator
Typeof(v) ==
  IF v.kind \in {"null", "object", "array"} THEN "object" ELSE v.kind

\* ToBoolean, as applied by ! and ||
Truthy(v) ==
  CASE v.kind \in {"undefined", "null"} -> FALSE
    [] v.kind = "boolean" -> v.b
    [] v.kind = "number" -> v.cls # "nan" /\ ~(v.cls = "finite" /\ v.h = 0 /\ v.ulp = 0)
    [] v.kind = "string" -> Len(v.chars) > 0
    [] v.kind = "bigint" -> v.n # 0
    [] OTHER -> TRUE

\* the left operand with no default
Or_NoDefault(a, b) == a

\* a || b
Or(a, b) == IF Truthy(a) THEN a ELSE b

\* The completion of payload.name: a TypeError on undefined and null, the
\* own property when the value has one, undefined otherwise.
TypeError == [kind |-> "throw", error |-> "TypeError"]

Get(v, name) ==
  CASE v.kind \in {"undefined", "null"} -> TypeError
    [] v.kind \in {"object", "array", "function"} ->
         IF name \in DOMAIN v.props THEN v.props[name] ELSE Undefined
    [] OTHER -> Undefined

\* SameValueZero, the comparison of Array.prototype.includes
SameValueZero(x, y) ==
  IF x.kind = "number" /\ y.kind = "number"
  THEN \/ x.cls = "nan" /\ y.cls = "nan"
       \/ /\ x.cls = y.cls
          /\ x.cls # "nan"
          /\ x.sign * x.h = y.sign * y.h
          /\ x.sign * x.ulp = y.sign * y.ulp
          /\ (x.cls = "inf" => x.sign = y.sign)
  ELSE x = y

Includes(arr, v) == \E i \in 1..Len(arr) : SameValueZero(arr[i], v)

(***************************************************************************)
(* Regular expressions: a pattern is a sequence of nodes, each an anchor   *)
(* or a character class repeated exactly n times, with the ignoreCase      *)
(* flag.  RegExpTest is RegExp.prototype.test of a pattern without the     *)
(* global and multiline flags.                                             *)
(***************************************************************************)
LowerCase == <<"a", "b", "c", "d", "e", "f", "g", "h", "i", "j", "k", "l", "m",
               "n", "o", "p", "q", "r", "s", "t", "u", "v", "w", "x", "y", "z">>

UpperCase == <<"A", "B", "C", "D", "E", "F", "G", "H", "I", "J", "K", "L", "M",
               "N", "O", "P", "Q", "R", "S", "T", "U", "V", "W", "X", "Y", "Z">>

UpperOf ==
  [c \in {LowerCase[i] : i \in 1..Len(LowerCase)} |->
     UpperCase[CHOOSE i \in 1..Len(LowerCase) : LowerCase[i] = c]]

\* String.prototype.toUpperCase of one code unit of the alphabet used here
ToUpperCase(c) == IF c \in DOMAIN UpperOf THEN UpperOf[c] ELSE c

\* Canonicalize of the regular expression semantics
Canonicalize(ignoreCase, c) == IF ignoreCase THEN ToUpperCase(c) ELSE c

Bol == [node |-> "bol"]

Eol == [node |-> "eol"]

Class(chars, n) == [node |-> "class", chars |-> chars, n |-> n]

Ch(c) == Class({c}, 1)

Digits == {"0", "1", "2", "3", "4", "5", "6", "7", "8", "9"}

\* A pattern with its flag; canon holds each class's canonicalized members.
RegExp(src, ignoreCase) ==
  [src |-> src, ignoreCase |-> ignoreCase,
   canon |-> [i \in 1..Len(src) |->
                IF src[i].node = "class"
                THEN {Canonicalize(ignoreCase, m) : m \in src[i].chars}
                ELSE {}]]

ClassMatches(re, i, c) == Canonicalize(re.ignoreCase, c) \in re.canon[i]

RECURSIVE MatchAt(_, _, _, _)
MatchAt(re, s, i, j) ==
  IF i > Len(re.src) THEN TRUE
  ELSE LET node == re.src[i] IN
    CASE node.node = "bol" -> j = 1 /\ MatchAt(re, s, i + 1, j)
      [] node.node = "eol" -> j = Len(s) + 1 /\ MatchAt(re, s, i + 1, j)
      [] node.node = "class" ->
           /\ j + node.n - 1 <= Len(s)
           /\ \A k \in j..(j + node.n - 1) : ClassMatches(re, i, s[k])
           /\ MatchAt(re, s, i + 1, j + node.n)

RegExpTest(re, s) == \E start \in 1..(Len(s) + 1) : MatchAt(re, s, 1, start)

\* the address pattern with the i flag added
AddressRegExp_IgnoreCase ==
  RegExp(<<Bol, Ch("0"), Ch("x"),
           Class({"a", "b", "c", "d", "e", "f", "A", "B", "C", "D", "E", "F"} \cup Digits, 40),
           Eol>>, TRUE)

\* /^0x[a-fA-F0-9]{40}$/
AddressRegExp ==
  RegExp(<<Bol, Ch("0"), Ch("x"),
           Class({"a", "b", "c", "d", "e", "f", "A", "B", "C", "D", "E", "F"} \cup Digits, 40),
           Eol>>, FALSE)

HexLower == Digits \cup {"a", "b", "c", "d", "e", "f"}

\* the room id pattern with any hexadecimal digit as version nibble
RoomIdRegExp_AnyVersion ==
  RegExp(<<Bol, Class(HexLower, 8), Ch("-"), Class(HexLower, 4), Ch("-"),
           Class(HexLower, 4), Ch("-"),
           Class({"8", "9", "a", "b"}, 1), Class(HexLower, 3), Ch("-"),
           Class(HexLower, 12), Eol>>, TRUE)

\* /^[0-9a-f]{8}-[0-9a-f]{4}-4[0-9a-f]{3}-[89ab][0-9a-f]{3}-[0-9a-f]{12}$/i
RoomIdRegExp ==
  RegExp(<<Bol, Class(HexLower, 8), Ch("-"), Class(HexLower, 4), Ch("-"),
           Ch("4"), Class(HexLower, 3), Ch("-"),
           Class({"8", "9", "a", "b"}, 1), Class(HexLower, 3), Ch("-"),
           Class(HexLower, 12), Eol>>, TRUE)

(***************************************************************************)
(* The four predicates.                                                    *)
(***************************************************************************)
isValidEthereumAddress(address) ==
  Typeof(address) = "string" /\ RegExpTest(AddressRegExp, address.chars)

isValidRoomId(roomId) ==
  Typeof(roomId) = "string" /\ RegExpTest(RoomIdRegExp, roomId.chars)

Directions == <<Str(<<"U", "P">>), Str(<<"D", "O", "W", "N">>),
                Str(<<"L", "E", "F", "T">>), Str(<<"R", "I", "G", "H", "T">>)>>

\* the direction compared after upper-casing it
isValidDirection_IgnoreCase(direction) ==
  /\ Typeof(direction) = "string"
  /\ Includes(Directions, Str([i \in 1..Len(direction.chars) |-> ToUpperCase(direction.chars[i])]))

isValidDirection(direction) ==
  Typeof(direction) = "string" /\ Includes(Directions, direction)

validAmounts == <<Num(1, 0, 0), Num(1, 1, 0), Num(1, 10, 0), Num(1, 100, 0), Num(1, 200, 0)>>

\* the amount compared within a tolerance of some units in the last place
isValidBetAmount_Tolerant(betAmount) ==
  /\ Typeof(betAmount) = "number"
  /\ \E i \in 1..Len(validAmounts) :
       /\ betAmount.cls = "finite"
       /\ betAmount.sign * betAmount.h = validAmounts[i].h

isValidBetAmount(betAmount) ==
  Typeof(betAmount) = "number" /\ Includes(validAmounts, betAmount)

(***************************************************************************)
(* The two payload validators.  A call completes by returning a result     *)
(* object or by throwing; logged is what it wrote with console.log, one    *)
(* tuple of arguments per line.                                            *)
(***************************************************************************)
Return(value, logged) == [type |-> "return", value |-> value, logged |-> logged]

Throw(error) == [type |-> "throw", value |-> error, logged |-> <<>>]

Fail(error) == Return([success |-> FALSE, error |-> error], <<>>)

\* the room id checked before the bet amount
validateJoinRoomPayload_RoomFirst(payload) ==
  IF ~Truthy(payload) \/ Typeof(payload) # "object"
  THEN Fail("Invalid payload format")
  ELSE IF Get(payload, "eoa") = TypeError
  THEN Throw(TypeError)
  ELSE LET eoa == Get(payload, "eoa")
           betAmount == Get(payload, "betAmount")
           roomId == Get(payload, "roomId")
       IN IF ~Truthy(eoa)
          THEN Fail("Ethereum address is required")
          ELSE IF ~isValidEthereumAddress(eoa)
          THEN Fail("Invalid Ethereum address format")
          ELSE IF roomId # Undefined /\ ~isValidRoomId(roomId)
          THEN Fail("Invalid room ID format")
          ELSE IF betAmount # Undefined /\ ~isValidBetAmount(betAmount)
          THEN Fail("Invalid bet amount. Must be 0, 0.01, 0.1, 1, or 2")
          ELSE IF roomId = Undefined
          THEN Return([success |-> TRUE, isCreating |-> TRUE],
                      << <<"Creating new room with bet amount:", Or(betAmount, Num(1, 0, 0))>> >>)
          ELSE IF ~isValidRoomId(roomId)
          THEN Fail("Invalid room ID format")
          ELSE Return([success |-> TRUE, isJoining |-> TRUE],
                      << <<"Joining existing room:", roomId, "with bet amount:",
                           Or(betAmount, Num(1, 0, 0))>> >>)

\* any falsy roomId taken as a request to create a room
validateJoinRoomPayload_FalsyRoomId(payload) ==
  IF ~Truthy(payload) \/ Typeof(payload) # "object"
  THEN Fail("Invalid payload format")
  ELSE IF Get(payload, "eoa") = TypeError
  THEN Throw(TypeError)
  ELSE LET eoa == Get(payload, "eoa")
           betAmount == Get(payload, "betAmount")
           roomId == Get(payload, "roomId")
       IN IF ~Truthy(eoa)
          THEN Fail("Ethereum address is required")
          ELSE IF ~isValidEthereumAddress(eoa)
          THEN Fail("Invalid Ethereum address format")
          ELSE IF betAmount # Undefined /\ ~isValidBetAmount(betAmount)
          THEN Fail("Invalid bet amount. Must be 0, 0.01, 0.1, 1, or 2")
          ELSE IF ~Truthy(roomId)
          THEN Return([success |-> TRUE, isCreating |-> TRUE],
                      << <<"Creating new room with bet amount:", Or(betAmount, Num(1, 0, 0))>> >>)
          ELSE IF ~isValidRoomId(roomId)
          THEN Fail("Invalid room ID format")
          ELSE Return([success |-> TRUE, isJoining |-> TRUE],
                      << <<"Joining existing room:", roomId, "with bet amount:",
                           Or(betAmount, Num(1, 0, 0))>> >>)

\* room creation refused once something was logged
validateJoinRoomPayload_Remembering(payload) ==
  IF ~Truthy(payload) \/ Typeof(payload) # "object"
  THEN Fail("Invalid payload format")
  ELSE IF Get(payload, "eoa") = TypeError
  THEN Throw(TypeError)
  ELSE LET eoa == Get(payload, "eoa")
           betAmount == Get(payload, "betAmount")
           roomId == Get(payload, "roomId")
       IN IF ~Truthy(eoa)
          THEN Fail("Ethereum address is required")
          ELSE IF ~isValidEthereumAddress(eoa)
          THEN Fail("Invalid Ethereum address format")
          ELSE IF betAmount # Undefined /\ ~isValidBetAmount(betAmount)
          THEN Fail("Invalid bet amount. Must be 0, 0.01, 0.1, 1, or 2")
          ELSE IF roomId = Undefined /\ Len(log) > 0
          THEN Fail("Room already requested")
          ELSE IF roomId = Undefined
          THEN Return([success |-> TRUE, isCreating |-> TRUE],
                      << <<"Creating new room with bet amount:", Or(betAmount, Num(1, 0, 0))>> >>)
          ELSE IF ~isValidRoomId(roomId)
          THEN Fail("Invalid room ID format")
          ELSE Return([success |-> TRUE, isJoining |-> TRUE],
                      << <<"Joining existing room:", roomId, "with bet amount:",
                           Or(betAmount, Num(1, 0, 0))>> >>)

validateJoinRoomPayload(payload) ==
  IF ~Truthy(payload) \/ Typeof(payload) # "object"
  THEN Fail("Invalid payload format")
  ELSE IF Get(payload, "eoa") = TypeError
  THEN Throw(TypeError)
  ELSE LET eoa == Get(payload, "eoa")
           betAmount == Get(payload, "betAmount")
           roomId == Get(payload, "roomId")
       IN IF ~Truthy(eoa)
          THEN Fail("Ethereum address is required")
          ELSE IF ~isValidEthereumAddress(eoa)
          THEN Fail("Invalid Ethereum address format")
          ELSE IF betAmount # Undefined /\ ~isValidBetAmount(betAmount)
          THEN Fail("Invalid bet amount. Must be 0, 0.01, 0.1, 1, or 2")
          ELSE IF roomId = Undefined
          THEN Return([success |-> TRUE, isCreating |-> TRUE],
                      << <<"Creating new room with bet amount:", Or(betAmount, Num(1, 0, 0))>> >>)
          ELSE IF ~isValidRoomId(roomId)
          THEN Fail("Invalid room ID format")
          ELSE Return([success |-> TRUE, isJoining |-> TRUE],
                      << <<"Joining existing room:", roomId, "with bet amount:",
                           Or(betAmount, Num(1, 0, 0))>> >>)

\* the direction checked before the room id
validateDirectionPayload_DirectionFirst(payload) ==
  IF ~Truthy(payload) \/ Typeof(payload) # "object"
  THEN Fail("Invalid payload format")
  ELSE IF Get(payload, "roomId") = TypeError
  THEN Throw(TypeError)
  ELSE LET roomId == Get(payload, "roomId")
           direction == Get(payload, "direction")
       IN IF ~Truthy(direction)
          THEN Fail("Direction is required")
          ELSE IF ~isValidDirection(direction)
          THEN Fail("Invalid direction format (must be UP, DOWN, LEFT, or RIGHT)")
          ELSE IF ~Truthy(roomId)
          THEN Fail("Room ID is required")
          ELSE IF ~isValidRoomId(roomId)
          THEN Fail("Invalid room ID format")
          ELSE Return([success |-> TRUE], <<>>)

\* the payload guard without its falsy test
validateDirectionPayload_TypeofOnly(payload) ==
  IF Typeof(payload) # "object"
  THEN Fail("Invalid payload format")
  ELSE IF Get(payload, "roomId") = TypeError
  THEN Throw(TypeError)
  ELSE LET roomId == Get(payload, "roomId")
           direction == Get(payload, "direction")
       IN IF ~Truthy(roomId)
          THEN Fail("Room ID is required")
          ELSE IF ~isValidRoomId(roomId)
          THEN Fail("Invalid room ID format")
          ELSE IF ~Truthy(direction)
          THEN Fail("Direction is required")
          ELSE IF ~isValidDirection(direction)
          THEN Fail("Invalid direction format (must be UP, DOWN, LEFT, or RIGHT)")
          ELSE Return([success |-> TRUE], <<>>)

validateDirectionPayload(payload) ==
  IF ~Truthy(payload) \/ Typeof(payload) # "object"
  THEN Fail("Invalid payload format")
  ELSE IF Get(payload, "roomId") = TypeError
  THEN Throw(TypeError)
  ELSE LET roomId == Get(payload, "roomId")
           direction == Get(payload, "direction")
       IN IF ~Truthy(roomId)
          THEN Fail("Room ID is required")
          ELSE IF ~isValidRoomId(roomId)
          THEN Fail("Invalid room ID format")
          ELSE IF ~Truthy(direction)
          THEN Fail("Direction is required")
          ELSE IF ~isValidDirection(direction)
          THEN Fail("Invalid direction format (must be UP, DOWN, LEFT, or RIGHT)")
          ELSE Return([success |-> TRUE], <<>>)

(***************************************************************************)
(* The callers.  input is the value under validation and call the last     *)
(* call made on it: who called which function and how it completed.  log   *)
(* is the console, the only thing a call writes.  watched remembers one    *)
(* earlier call, for comparison with later calls on the same argument.     *)
(***************************************************************************)
NumCallers == 2

MaxLog == 2

Callers == 1..NumCallers

NoCall == [caller |-> 0, fn |-> "none", type |-> "none", value |-> Undefined]

Called(c, fn, completion) ==
  [caller |-> c, fn |-> fn, type |-> completion.type, value |-> completion.value]

HasRoom(completion) == Len(log) + Len(completion.logged) <= MaxLog

IsValidEthereumAddressCall(c, v) ==
  \E completion \in {Return(Bool(isValidEthereumAddress(v)), <<>>)} :
  /\ HasRoom(completion)
  /\ input' = v
  /\ call' = Called(c, "isValidEthereumAddress", completion)
  /\ log' = log \o completion.logged
  /\ UNCHANGED watched

IsValidRoomIdCall(c, v) ==
  \E completion \in {Return(Bool(isValidRoomId(v)), <<>>)} :
  /\ HasRoom(completion)
  /\ input' = v
  /\ call' = Called(c, "isValidRoomId", completion)
  /\ log' = log \o completion.logged
  /\ UNCHANGED watched

IsValidDirectionCall(c, v) ==
  \E completion \in {Return(Bool(isValidDirection(v)), <<>>)} :
  /\ HasRoom(completion)
  /\ input' = v
  /\ call' = Called(c, "isValidDirection", completion)
  /\ log' = log \o completion.logged
  /\ UNCHANGED watched

IsValidBetAmountCall(c, v) ==
  \E completion \in {Return(Bool(isValidBetAmount(v)), <<>>)} :
  /\ HasRoom(completion)
  /\ input' = v
  /\ call' = Called(c, "isValidBetAmount", completion)
  /\ log' = log \o completion.logged
  /\ UNCHANGED watched

ValidateJoinRoomPayloadCall(c, v) ==
  \E completion \in {validateJoinRoomPayload(v)} :
  /\ HasRoom(completion)
  /\ input' = v
  /\ call' = Called(c, "validateJoinRoomPayload", completion)
  /\ log' = log \o completion.logged
  /\ UNCHANGED watched

ValidateDirectionPayloadCall(c, v) ==
  \E completion \in {validateDirectionPayload(v)} :
  /\ HasRoom(completion)
  /\ input' = v
  /\ call' = Called(c, "validateDirectionPayload", completion)
  /\ log' = log \o completion.logged
  /\ UNCHANGED watched

NoWatch == [caller |-> 0, fn |-> "none", arg |-> Undefined, type |-> "none", value |-> Undefined]

\* Remember the last call, once.
Watch ==
  /\ call.fn # "none"
  /\ watched.fn = "none"
  /\ watched' = [caller |-> call.caller, fn |-> call.fn, arg |-> input,
                 type |-> call.type, value |-> call.value]
  /\ UNCHANGED <<input, call, log>>

(***************************************************************************)
(* The values the callers pass.                                            *)
(***************************************************************************)
Replace(s, p, c) == [s EXCEPT ![p] = c]

Delete(s, p) == SubSeq(s, 1, p - 1) \o SubSeq(s, p + 1, Len(s))

Insert(s, p, c) == SubSeq(s, 1, p - 1) \o <<c>> \o SubSeq(s, p, Len(s))

EditChars == {"0", "1", "4", "7", "8", "9", "a", "b", "c", "f", "A", "B", "F",
              "g", "G", "x", "X", "-", " ", "\n", "u", "p", "U", "P"}

\* s and every string one edit away from it
Variants(s) ==
  {s} \cup {Replace(s, p, c) : p \in 1..Len(s), c \in EditChars}
      \cup {Delete(s, p) : p \in 1..Len(s)}
      \cup {Insert(s, p, c) : p \in 1..(Len(s) + 1), c \in EditChars}

HexCycle == <<"a", "B", "3", "f", "0", "D", "9", "c", "E", "7">>

ValidAddress == <<"0", "x">> \o [i \in 1..40 |-> HexCycle[(i % Len(HexCycle)) + 1]]

ValidRoomId == <<"1", "2", "3", "e", "4", "5", "6", "7", "-", "e", "8", "9", "b", "-", "4", "2", "d", "3", "-", "a", "4", "5", "6", "-", "4", "2", "6", "6", "1", "4", "1", "7", "4", "0", "0", "0">>

UpperRoomId == [i \in 1..Len(ValidRoomId) |-> ToUpperCase(ValidRoomId[i])]

AddressStrings == Variants(ValidAddress) \cup {<<"0", "x">>, <<"0", "x", "a", "b", "c">>}

RoomIdStrings == Variants(ValidRoomId) \cup {UpperRoomId}

DirectionStrings ==
  UNION {Variants(Directions[i].chars) : i \in 1..Len(Directions)}
    \cup {<<>>, <<"u", "p">>, <<"U", "p">>, <<"d", "o", "w", "n">>, <<"l", "e", "f", "t">>,
          <<"r", "i", "g", "h", "t">>, <<"S", "I", "D", "E", "W", "A", "Y", "S">>,
          <<"U", "P", "D", "O", "W", "N">>, <<"1">>, <<"0">>}

Strings == {Str(s) : s \in AddressStrings \cup RoomIdStrings \cup DirectionStrings}

Numbers ==
  {Num(sign, h, ulp) : sign \in {1, -1}, h \in {0, 1, 2, 10, 15, 99, 100, 101, 200, 300},
                       ulp \in {-1, 0, 1}}
    \cup {NaN, Infinity, [Infinity EXCEPT !.sign = -1]}

Up == Directions[1]

EmptyObject == Obj(NoProps)

\* a function and an array that carry the properties of a valid payload
ValidProps ==
  [eoa |-> Str(ValidAddress), roomId |-> Str(ValidRoomId), direction |-> Up]

Others ==
  {Undefined, Null, Bool(TRUE), Bool(FALSE), BigInt(0), BigInt(1), Symbol,
   Function(NoProps), Function(ValidProps), [Arr(<<>>) EXCEPT !.props = ValidProps],
   EmptyObject, Arr(<<>>), Arr(<<Up>>), Arr(<<Num(1, 100, 0)>>), Arr(<<Str(ValidAddress)>>)}

Primitives == Strings \cup Numbers \cup Others

EoaValues ==
  {Undefined, Null, Bool(FALSE), Str(<<>>), Num(1, 0, 0), Num(1, 100, 0), EmptyObject,
   Str(<<"b", "a", "d">>), Str(ValidAddress), Str(Replace(ValidAddress, 2, "X")),
   Str(Delete(ValidAddress, 42)), Arr(<<Str(ValidAddress)>>)}

BetAmountValues ==
  {Undefined, Null, Bool(FALSE), Str(<<"1">>), Str(<<>>), NaN,
   Num(1, 0, 0), Num(-1, 0, 0), Num(1, 1, 0), Num(1, 10, 0), Num(1, 100, 0), Num(1, 200, 0),
   Num(1, 10, 1), Num(1, 15, 0), Num(1, 300, 0), Num(-1, 100, 0)}

RoomIdValues ==
  {Undefined, Null, Bool(FALSE), Str(<<>>), Num(1, 0, 0), Num(1, 100, 0), EmptyObject,
   Str(<<"a", "b", "c">>), Str(ValidRoomId), Str(UpperRoomId),
   Str(Replace(ValidRoomId, 15, "1")), Str(Replace(ValidRoomId, 20, "c"))}

DirectionValues ==
  {Undefined, Null, Bool(FALSE), Str(<<>>), Num(1, 0, 0), Arr(<<Up>>),
   Directions[1], Directions[2], Directions[3], Directions[4],
   Str(<<"u", "p">>), Str(<<"S", "I", "D", "E", "W", "A", "Y", "S">>)}

\* payload objects: own properties only where a value is given
Payloads ==
  {Obj([eoa |-> e, betAmount |-> b, roomId |-> r]) :
     e \in EoaValues, b \in BetAmountValues, r \in RoomIdValues}
    \cup {Obj([eoa |-> e, roomId |-> r]) : e \in EoaValues, r \in RoomIdValues}
    \cup {Obj([eoa |-> e, betAmount |-> b]) : e \in EoaValues, b \in BetAmountValues}
    \cup {Obj([roomId |-> r, direction |-> d]) : r \in RoomIdValues, d \in DirectionValues}
    \cup {Obj([direction |-> d]) : d \in DirectionValues}
    \cup {Obj([eoa |-> e, betAmount |-> Num(1, 10, 0), roomId |-> r, direction |-> d]) :
            e \in {Str(ValidAddress), Str(<<"b", "a", "d">>)},
            r \in RoomIdValues, d \in DirectionValues}

Inputs == Primitives \cup Payloads

\* the values passed in the long-running specification
AddressMessages == {Undefined, Str(ValidAddress), Str(Replace(ValidAddress, 2, "X"))}

RoomIdMessages == {Str(<<>>), Str(ValidRoomId), Str(Replace(ValidRoomId, 15, "1"))}

DirectionMessages == {Up, Str(<<"u", "p">>), Arr(<<Up>>)}

BetAmountMessages == {Num(1, 10, 0), Num(1, 15, 0), Str(<<"1">>)}

JoinRoomPayloadMessages ==
  {Undefined,
   Obj([eoa |-> Str(ValidAddress)]),
   Obj([eoa |-> Str(ValidAddress), roomId |-> Str(ValidRoomId), betAmount |-> Num(1, 10, 0)]),
   Obj([eoa |-> Str(ValidAddress), roomId |-> Null]),
   Obj([eoa |-> Str(<<"b", "a", "d">>), roomId |-> Str(ValidRoomId)])}

DirectionPayloadMessages ==
  {Null,
   Obj([roomId |-> Str(ValidRoomId), direction |-> Up]),
   Obj([roomId |-> Str(ValidRoomId), direction |-> Str(<<"u", "p">>)])}

(***************************************************************************)
(* Specifications.  SpecCall: one call of one of the six functions on one  *)
(* value.  Spec: any sequence of calls by the callers.                     *)
(***************************************************************************)
InitCall ==
  /\ input \in Inputs
  /\ call = NoCall
  /\ log = <<>>
  /\ watched = NoWatch

Fresh == call.fn = "none"

NextCall ==
  \E c \in Callers :
    \/ Fresh /\ IsValidEthereumAddressCall(c, input)
    \/ Fresh /\ IsValidRoomIdCall(c, input)
    \/ Fresh /\ IsValidDirectionCall(c, input)
    \/ Fresh /\ IsValidBetAmountCall(c, input)
    \/ Fresh /\ ValidateJoinRoomPayloadCall(c, input)
    \/ Fresh /\ ValidateDirectionPayloadCall(c, input)

SpecCall == InitCall /\ [][NextCall]_vars

Init ==
  /\ input = Undefined
  /\ call = NoCall
  /\ log = <<>>
  /\ watched = NoWatch

Next ==
  \/ \E c \in Callers, v \in AddressMessages : IsValidEthereumAddressCall(c, v)
  \/ \E c \in Callers, v \in RoomIdMessages : IsValidRoomIdCall(c, v)
  \/ \E c \in Callers, v \in DirectionMessages : IsValidDirectionCall(c, v)
  \/ \E c \in Callers, v \in BetAmountMessages : IsValidBetAmountCall(c, v)
  \/ \E c \in Callers, v \in JoinRoomPayloadMessages : ValidateJoinRoomPayloadCall(c, v)
  \/ \E c \in Callers, v \in DirectionPayloadMessages : ValidateDirectionPayloadCall(c, v)
  \/ Watch

Spec == Init /\ [][Next]_vars

(***************************************************************************)
(* The properties.  The sets and predicates below state the formats as     *)
(* the documentation words them, independently of the patterns above.      *)
(***************************************************************************)
HexDigitChars ==
  {"0", "1", "2", "3", "4", "5", "6", "7", "8", "9",
   "a", "b", "c", "d", "e", "f", "A", "B", "C", "D", "E", "F"}

UpperHexLetters == {"A", "B", "C", "D", "E", "F"}

LowerHexLetters == {"a", "b", "c", "d", "e", "f"}

\* "0x" followed by exactly 40 hexadecimal characters, nothing else
IsAddressText(v) ==
  /\ v.kind = "string"
  /\ Len(v.chars) = 42
  /\ v.chars[1] = "0"
  /\ v.chars[2] = "x"
  /\ \A i \in 3..42 : v.chars[i] \in HexDigitChars

\* groups of 8, 4, 4, 4 and 12 hexadecimal characters, version 4, variant 8, 9, a or b
IsUuidV4Text(v) ==
  /\ v.kind = "string"
  /\ Len(v.chars) = 36
  /\ \A i \in 1..36 :
       IF i \in {9, 14, 19, 24} THEN v.chars[i] = "-"
       ELSE IF i = 15 THEN v.chars[i] = "4"
       ELSE IF i = 20 THEN v.chars[i] \in {"8", "9", "a", "b", "A", "B"}
       ELSE v.chars[i] \in HexDigitChars

\* a number equal to 0, 0.01, 0.1, 1 or 2
IsAllowedAmount(v) ==
  /\ v.kind = "number"
  /\ v.cls = "finite"
  /\ v.ulp = 0
  /\ v.sign * v.h \in {0, 1, 10, 100, 200}

IsDirectionText(v) ==
  /\ v.kind = "string"
  /\ v.chars \in {<<"U", "P">>, <<"D", "O", "W", "N">>, <<"L", "E", "F", "T">>,
                  <<"R", "I", "G", "H", "T">>}

\* a payload of type object: an object or an array, not null
IsObjectPayload(v) == v.kind \in {"object", "array"}

\* the own property of an object payload, undefined when there is none
Field(v, name) ==
  IF IsObjectPayload(v) /\ name \in DOMAIN v.props THEN v.props[name] ELSE Undefined

HasField(v, name) == IsObjectPayload(v) /\ name \in DOMAIN v.props

Returned(fn) == call.fn = fn /\ call.type = "return"

\* C7: isValidEthereumAddress(v) returns true if and only if v is a string of
\* exactly "0x" (lower-case x) followed by exactly 40 characters in 0-9, a-f,
\* A-F, in any mix of case; it returns false for every other value.
C7_AddressFormat ==
  call.fn = "isValidEthereumAddress" =>
    /\ call.type = "return"
    /\ call.value = Bool(IsAddressText(input))

\* a mixed-case address was accepted
C7_Witness ==
  /\ Returned("isValidEthereumAddress")
  /\ call.value = Bool(TRUE)
  /\ \E i \in 3..42 : input.chars[i] \in UpperHexLetters
  /\ \E i \in 3..42 : input.chars[i] \in LowerHexLetters

\* C8: isValidRoomId(v) returns true if and only if v is a string in UUID
\* version 4 form: groups of 8, 4, 4, 4 and 12 hexadecimal characters of
\* either case, the third group starting with 4 and the fourth with one of
\* 8, 9, a, b; it returns false for every other value.
C8_RoomIdFormat ==
  call.fn = "isValidRoomId" =>
    /\ call.type = "return"
    /\ call.value = Bool(IsUuidV4Text(input))

\* a well-formed id whose version nibble is not 4 was rejected
C8_Witness ==
  /\ Returned("isValidRoomId")
  /\ call.value = Bool(FALSE)
  /\ input.kind = "string"
  /\ IsUuidV4Text(Str(Replace(input.chars, 15, "4")))
  /\ input.chars[15] = "1"

\* C9: isValidBetAmount(v) returns true if and only if v is a number equal to
\* one of 0, 0.01, 0.1, 1, 2; so validateJoinRoomPayload rejects a payload
\* whose betAmount is a string or null, and accepts an otherwise valid payload
\* that has no betAmount.
C9_BetAmount ==
  /\ call.fn = "isValidBetAmount" =>
       /\ call.type = "return"
       /\ call.value = Bool(IsAllowedAmount(input))
  /\ call.fn = "validateJoinRoomPayload" =>
       /\ call.type = "return"
       /\ (HasField(input, "betAmount") /\ Field(input, "betAmount").kind \in {"string", "null"})
            => call.value.success = FALSE
       /\ (/\ IsObjectPayload(input)
           /\ ~HasField(input, "betAmount")
           /\ IsAddressText(Field(input, "eoa"))
           /\ (Field(input, "roomId") = Undefined \/ IsUuidV4Text(Field(input, "roomId"))))
            => call.value.success = TRUE

\* a payload whose betAmount is the string "1" was rejected for its amount
C9_Witness ==
  /\ Returned("validateJoinRoomPayload")
  /\ Field(input, "betAmount") = Str(<<"1">>)
  /\ call.value = [success |-> FALSE, error |-> "Invalid bet amount. Must be 0, 0.01, 0.1, 1, or 2"]

\* C10: isValidDirection(v) returns true if and only if v is a string equal,
\* case-sensitively, to UP, DOWN, LEFT or RIGHT; it returns false for every
\* other string and every non-string, an array holding "UP" included.
C10_Direction ==
  call.fn = "isValidDirection" =>
    /\ call.type = "return"
    /\ call.value = Bool(IsDirectionText(input))

\* the lower-case spelling "up" was rejected
C10_Witness ==
  /\ Returned("isValidDirection")
  /\ input = Str(<<"u", "p">>)
  /\ call.value = Bool(FALSE)

JoinErrors ==
  {"Invalid payload format", "Ethereum address is required", "Invalid Ethereum address format",
   "Invalid bet amount. Must be 0, 0.01, 0.1, 1, or 2", "Invalid room ID format"}

DirectionErrors ==
  {"Invalid payload format", "Room ID is required", "Invalid room ID format",
   "Direction is required", "Invalid direction format (must be UP, DOWN, LEFT, or RIGHT)"}

Failed(error) == call.type = "return" /\ call.value = [success |-> FALSE, error |-> error]

\* the bet amount of the payload is absent or allowed
AmountPasses(v) == Field(v, "betAmount") = Undefined \/ IsAllowedAmount(Field(v, "betAmount"))

\* C1: validateJoinRoomPayload returns the error of the first failing check,
\* in the order payload format, address required, address format, bet amount,
\* room id format, whatever is wrong with the later fields.
C1_JoinRoomOrder ==
  call.fn = "validateJoinRoomPayload" =>
    /\ ~IsObjectPayload(input) => Failed("Invalid payload format")
    /\ (IsObjectPayload(input) /\ ~Truthy(Field(input, "eoa")))
         => Failed("Ethereum address is required")
    /\ (/\ IsObjectPayload(input)
        /\ Truthy(Field(input, "eoa"))
        /\ ~IsAddressText(Field(input, "eoa")))
         => Failed("Invalid Ethereum address format")
    /\ (/\ IsAddressText(Field(input, "eoa"))
        /\ Field(input, "betAmount") # Undefined
        /\ ~IsAllowedAmount(Field(input, "betAmount")))
         => Failed("Invalid bet amount. Must be 0, 0.01, 0.1, 1, or 2")
    /\ (/\ IsAddressText(Field(input, "eoa"))
        /\ AmountPasses(input)
        /\ Field(input, "roomId") # Undefined
        /\ ~IsUuidV4Text(Field(input, "roomId")))
         => Failed("Invalid room ID format")

\* a payload with a valid address, a bad bet amount and a bad room id
\* reported the bet amount
C1_Witness ==
  /\ call.fn = "validateJoinRoomPayload"
  /\ IsAddressText(Field(input, "eoa"))
  /\ Field(input, "betAmount") = Num(1, 15, 0)
  /\ Field(input, "roomId") = Str(<<"a", "b", "c">>)
  /\ Failed("Invalid bet amount. Must be 0, 0.01, 0.1, 1, or 2")

\* C2: validateDirectionPayload returns the error of the first failing check,
\* in the order payload format, room id required, room id format, direction
\* required, direction format, and succeeds with {success: true} exactly when
\* roomId is a valid room id and direction is UP, DOWN, LEFT or RIGHT.
C2_DirectionOrder ==
  call.fn = "validateDirectionPayload" =>
    /\ call.type = "return"
    /\ ~IsObjectPayload(input) => Failed("Invalid payload format")
    /\ (IsObjectPayload(input) /\ ~Truthy(Field(input, "roomId")))
         => Failed("Room ID is required")
    /\ (/\ IsObjectPayload(input)
        /\ Truthy(Field(input, "roomId"))
        /\ ~IsUuidV4Text(Field(input, "roomId")))
         => Failed("Invalid room ID format")
    /\ (IsUuidV4Text(Field(input, "roomId")) /\ ~Truthy(Field(input, "direction")))
         => Failed("Direction is required")
    /\ (/\ IsUuidV4Text(Field(input, "roomId"))
        /\ Truthy(Field(input, "direction"))
        /\ ~IsDirectionText(Field(input, "direction")))
         => Failed("Invalid direction format (must be UP, DOWN, LEFT, or RIGHT)")
    /\ call.value.success = TRUE
         <=> (IsUuidV4Text(Field(input, "roomId")) /\ IsDirectionText(Field(input, "direction")))
    /\ call.value.success = TRUE => call.value = [success |-> TRUE]

\* a payload with a bad room id and a bad direction reported the room id
C2_Witness ==
  /\ call.fn = "validateDirectionPayload"
  /\ Field(input, "roomId") = Str(<<"a", "b", "c">>)
  /\ Field(input, "direction") = Str(<<"u", "p">>)
  /\ Failed("Invalid room ID format")

\* C3: a successful validateJoinRoomPayload result carries isCreating: true
\* if and only if payload.roomId is undefined, isJoining: true if and only if
\* it is present and a valid room id, never both; a roomId that is present but
\* invalid (null, the empty string) is never a creation request and, the
\* earlier checks passing, fails with 'Invalid room ID format'.
C3_CreateOrJoin ==
  call.fn = "validateJoinRoomPayload" =>
    /\ call.type = "return"
    /\ call.value.success = TRUE =>
         /\ "isCreating" \in DOMAIN call.value <=> Field(input, "roomId") = Undefined
         /\ "isJoining" \in DOMAIN call.value
              <=> (Field(input, "roomId") # Undefined /\ IsUuidV4Text(Field(input, "roomId")))
         /\ ~({"isCreating", "isJoining"} \subseteq DOMAIN call.value)
         /\ \A flag \in DOMAIN call.value : call.value[flag] = TRUE
    /\ (Field(input, "roomId") # Undefined /\ ~IsUuidV4Text(Field(input, "roomId"))) =>
         /\ call.value.success = FALSE
         /\ "isCreating" \notin DOMAIN call.value
         /\ (IsAddressText(Field(input, "eoa")) /\ AmountPasses(input))
              => Failed("Invalid room ID format")

\* a payload with a valid address and roomId null failed on the room id
C3_Witness ==
  /\ call.fn = "validateJoinRoomPayload"
  /\ HasField(input, "roomId")
  /\ Field(input, "roomId") = Null
  /\ Failed("Invalid room ID format")

\* C4: every call of a payload validator, on any value at all, returns a
\* result and never throws: error is present if and only if success is false
\* and is one of the validator's fixed messages, isCreating and isJoining
\* appear only on successful join-room results, and a successful direction
\* result has no flag.
C4_ResultShape ==
  call.fn \in {"validateJoinRoomPayload", "validateDirectionPayload"} =>
    /\ call.type = "return"
    /\ DOMAIN call.value \subseteq {"success", "error", "isCreating", "isJoining"}
    /\ "success" \in DOMAIN call.value
    /\ call.value.success \in BOOLEAN
    /\ "error" \in DOMAIN call.value <=> call.value.success = FALSE
    /\ "error" \in DOMAIN call.value =>
         call.value.error \in (IF call.fn = "validateJoinRoomPayload"
                               THEN JoinErrors ELSE DirectionErrors)
    /\ (DOMAIN call.value \cap {"isCreating", "isJoining"} # {}) =>
         (call.fn = "validateJoinRoomPayload" /\ call.value.success = TRUE)
    /\ (call.fn = "validateDirectionPayload" /\ call.value.success = TRUE) =>
         DOMAIN call.value = {"success"}

\* validateDirectionPayload(null) returned the payload-format error
C4_Witness ==
  /\ call.fn = "validateDirectionPayload"
  /\ input = Null
  /\ Failed("Invalid payload format")

SameNumber(x, y) ==
  /\ x.kind = "number" /\ y.kind = "number"
  /\ x.cls = "finite" /\ y.cls = "finite"
  /\ x.sign * x.h = y.sign * y.h
  /\ x.sign * x.ulp = y.sign * y.ulp

\* C5: a call of validateJoinRoomPayload writes exactly one log line if it
\* succeeds and none if it fails; validateDirectionPayload and the four
\* predicates write none.  The line shows payload.betAmount, an unset amount
\* as 0, and the result carries nothing of it.
C5_Logging ==
  call.fn # "none" =>
    IF call.fn = "validateJoinRoomPayload" /\ call.type = "return" /\ call.value.success = TRUE
    THEN /\ Len(log) = 1
         /\ SameNumber(log[1][Len(log[1])],
                       IF Field(input, "betAmount") = Undefined
                       THEN Num(1, 0, 0) ELSE Field(input, "betAmount"))
         /\ log[1][1] = (IF Field(input, "roomId") = Undefined
                         THEN "Creating new room with bet amount:"
                         ELSE "Joining existing room:")
         /\ call.value \in {[success |-> TRUE, isCreating |-> TRUE],
                            [success |-> TRUE, isJoining |-> TRUE]}
    ELSE log = <<>>

\* a room was created from a payload without betAmount and the line shows 0
C5_Witness ==
  /\ call.fn = "validateJoinRoomPayload"
  /\ input.kind = "object"
  /\ ~HasField(input, "betAmount")
  /\ log = << <<"Creating new room with bet amount:", Num(1, 0, 0)>> >>
  /\ call.value = [success |-> TRUE, isCreating |-> TRUE]

====
